---- MODULE Spec2Model ----
(***************************************************************************)
(* A model of bt_math (src/src/lib.rs): evaluate_expression, that is       *)
(*   replace(" ", "") -> tokenize -> to_rpn -> evaluate_rpn.               *)
(*                                                                         *)
(* A string is a sequence of characters, a character a one-character       *)
(* string ("u0663" stands for the one character U+0663, ARABIC-INDIC DIGIT *)
(* THREE).  An f64 is modelled by an exact value where the model can       *)
(* compute one (signed rationals, signed zeros, infinities, NaN) and by    *)
(* the uninterpreted term of the IEEE operation otherwise.                 *)
(***************************************************************************)
EXTENDS Integers, Sequences, FiniteSets, TLC

(***************************************************************************)
(* Bounds of the model.                                                    *)
(***************************************************************************)
\* Largest numerator or denominator kept exact; above it a value is the
\* uninterpreted term of the operation that produced it.
MaxExact == 10000

(***************************************************************************)
(* f64 values.                                                             *)
(***************************************************************************)
Fin(s, n, d) == [k |-> "fin", s |-> s, n |-> n, d |-> d, t |-> <<>>]
Inf(s) == [k |-> "inf", s |-> s, n |-> 0, d |-> 1, t |-> <<>>]
NaN == [k |-> "nan", s |-> 1, n |-> 0, d |-> 1, t |-> <<>>]
Sym(t) == [k |-> "sym", s |-> 1, n |-> 0, d |-> 1, t |-> t]

Int2F(i) == IF i < 0 THEN Fin(-1, -i, 1) ELSE Fin(1, i, 1)
One == Fin(1, 1, 1)
PI == Sym(<<"PI">>)
E == Sym(<<"E">>)

IsNaN(v) == v.k = "nan"
IsInf(v) == v.k = "inf"
IsFin(v) == v.k = "fin"
IsSym(v) == v.k = "sym"
IsZero(v) == v.k = "fin" /\ v.n = 0
IsInteger(v) == v.k = "fin" /\ v.d = 1
IsOddInteger(v) == v.k = "fin" /\ v.d = 1 /\ v.n % 2 = 1

RECURSIVE GCD(_, _)
GCD(a, b) == IF b = 0 THEN a ELSE GCD(b, a % b)

\* The value s*n/d, reduced; the term t when it is outside the exact range.
Exact(s, n, d, t) ==
    IF n = 0 THEN Fin(s, 0, 1)
    ELSE LET g == GCD(n, d)
         IN  IF n \div g > MaxExact \/ d \div g > MaxExact
             THEN Sym(t)
             ELSE Fin(s, n \div g, d \div g)

Neg(v) == IF v.k \in {"fin", "inf"} THEN [v EXCEPT !.s = -v.s] ELSE v

\* a + b
AddF(a, b) ==
    IF IsNaN(a) \/ IsNaN(b) THEN NaN
    ELSE IF IsSym(a) \/ IsSym(b) THEN Sym(<<"+", a, b>>)
    ELSE IF IsInf(a) /\ IsInf(b) THEN (IF a.s = b.s THEN a ELSE NaN)
    ELSE IF IsInf(a) THEN a
    ELSE IF IsInf(b) THEN b
    ELSE LET num == a.s * a.n * b.d + b.s * b.n * a.d
             den == a.d * b.d
         IN  IF num = 0
             THEN Fin(IF IsZero(a) /\ IsZero(b) /\ a.s = -1 /\ b.s = -1
                      THEN -1 ELSE 1, 0, 1)
             ELSE IF num < 0 THEN Exact(-1, -num, den, <<"+", a, b>>)
             ELSE Exact(1, num, den, <<"+", a, b>>)

\* a - b
SubF(a, b) ==
    IF IsNaN(a) \/ IsNaN(b) THEN NaN
    ELSE IF IsSym(a) \/ IsSym(b) THEN Sym(<<"-", a, b>>)
    ELSE LET r == AddF(a, Neg(b))
         IN  IF IsSym(r) THEN Sym(<<"-", a, b>>) ELSE r

\* a * b
MulF(a, b) ==
    IF IsNaN(a) \/ IsNaN(b) THEN NaN
    ELSE IF IsSym(a) \/ IsSym(b) THEN Sym(<<"*", a, b>>)
    ELSE IF IsInf(a) \/ IsInf(b)
         THEN (IF IsZero(a) \/ IsZero(b) THEN NaN ELSE Inf(a.s * b.s))
    ELSE Exact(a.s * b.s, a.n * b.n, a.d * b.d, <<"*", a, b>>)

\* a / b
DivF(a, b) ==
    IF IsNaN(a) \/ IsNaN(b) THEN NaN
    ELSE IF IsSym(a) \/ IsSym(b) THEN Sym(<<"/", a, b>>)
    ELSE IF IsInf(a) THEN (IF IsInf(b) THEN NaN ELSE Inf(a.s * b.s))
    ELSE IF IsInf(b) THEN Fin(a.s * b.s, 0, 1)
    ELSE IF IsZero(b) THEN (IF IsZero(a) THEN NaN ELSE Inf(a.s * b.s))
    ELSE Exact(a.s * b.s, a.n * b.d, a.d * b.n, <<"/", a, b>>)

\* n^e for n >= 1, or 0 when it leaves the exact range.
RECURSIVE PowAcc(_, _, _)
PowAcc(n, e, acc) ==
    IF e = 0 \/ n = 1 THEN acc
    ELSE IF acc * n > MaxExact THEN 0
    ELSE PowAcc(n, e - 1, acc * n)

\* a.powf(b)
PowF(a, b) ==
    IF IsZero(b) THEN One
    ELSE IF a = One THEN One
    ELSE IF IsNaN(a) \/ IsNaN(b) THEN NaN
    ELSE IF IsSym(a) \/ IsSym(b) THEN Sym(<<"^", a, b>>)
    ELSE IF IsInf(b)
         THEN IF IsFin(a) /\ a.n = a.d THEN One
              ELSE IF (IsFin(a) /\ a.n < a.d) <=> (b.s = 1)
                   THEN Fin(1, 0, 1) ELSE Inf(1)
    ELSE IF IsInf(a) \/ IsZero(a)
         THEN LET s == IF a.s = -1 /\ IsOddInteger(b) THEN -1 ELSE 1
              IN  IF IsInf(a) <=> (b.s = 1) THEN Inf(s) ELSE Fin(s, 0, 1)
    ELSE IF ~IsInteger(b)
         THEN (IF a.s = -1 THEN NaN ELSE Sym(<<"^", a, b>>))
    ELSE LET pn == PowAcc(a.n, b.n, 1)
             pd == PowAcc(a.d, b.n, 1)
             s == IF a.s = -1 /\ IsOddInteger(b) THEN -1 ELSE 1
         IN  IF pn = 0 \/ pd = 0 THEN Sym(<<"^", a, b>>)
             ELSE IF b.s = 1 THEN Fin(s, pn, pd) ELSE Fin(s, pd, pn)


\* The integer square root of n, rounded up.
RECURSIVE SqrtFrom(_, _)
SqrtFrom(n, r) == IF r * r >= n THEN r ELSE SqrtFrom(n, r + 1)

IsSquare(n) == SqrtFrom(n, 0) * SqrtFrom(n, 0) = n

\* The k with base^k = n, or -1 when n is no power of base.
RECURSIVE LogAcc(_, _, _)
LogAcc(base, n, k) ==
    IF n = 1 THEN k
    ELSE IF n % base = 0 THEN LogAcc(base, n \div base, k + 1)
    ELSE -1

\* arg.ln(), arg.log2(), arg.log10(): exact on the powers of the base
\* (base = 0 stands for e, whose only rational power is e^0).
LogF(name, base, x) ==
    IF IsInf(x) THEN (IF x.s = 1 THEN Inf(1) ELSE NaN)
    ELSE IF IsZero(x) THEN Inf(-1)
    ELSE IF x.s = -1 THEN NaN
    ELSE IF x = One THEN Fin(1, 0, 1)
    ELSE IF base = 0 THEN Sym(<<name, x>>)
    ELSE IF x.d = 1 /\ LogAcc(base, x.n, 0) > 0
         THEN Fin(1, LogAcc(base, x.n, 0), 1)
    ELSE IF x.n = 1 /\ LogAcc(base, x.d, 0) > 0
         THEN Fin(-1, LogAcc(base, x.d, 0), 1)
    ELSE Sym(<<name, x>>)

\* The math functions of f64, by the name the evaluator dispatches on.
MathF(name, x) ==
    IF IsNaN(x) THEN NaN
    ELSE IF IsSym(x) THEN Sym(<<name, x>>)
    ELSE CASE name = "abs" -> [x EXCEPT !.s = 1]
           [] name = "sqrt" ->
                IF IsZero(x) THEN x
                ELSE IF x.s = -1 THEN NaN
                ELSE IF IsInf(x) THEN x
                ELSE IF IsSquare(x.n) /\ IsSquare(x.d)
                     THEN Fin(1, SqrtFrom(x.n, 0), SqrtFrom(x.d, 0))
                ELSE Sym(<<name, x>>)
           [] name = "ln" -> LogF(name, 0, x)
           [] name = "log2" -> LogF(name, 2, x)
           [] name = "log10" -> LogF(name, 10, x)
           [] name = "exp" ->
                IF IsZero(x) THEN One
                ELSE IF IsInf(x) THEN (IF x.s = 1 THEN x ELSE Fin(1, 0, 1))
                ELSE Sym(<<name, x>>)
           [] name \in {"sin", "tan"} ->
                IF IsZero(x) THEN x
                ELSE IF IsInf(x) THEN NaN
                ELSE Sym(<<name, x>>)
           [] name = "cos" ->
                IF IsZero(x) THEN One
                ELSE IF IsInf(x) THEN NaN
                ELSE Sym(<<name, x>>)
           [] name = "asin" ->
                IF IsZero(x) THEN x
                ELSE IF IsInf(x) \/ x.n > x.d THEN NaN
                ELSE Sym(<<name, x>>)
           [] name = "acos" ->
                IF x = One THEN Fin(1, 0, 1)
                ELSE IF IsInf(x) \/ x.n > x.d THEN NaN
                ELSE Sym(<<name, x>>)
           [] name = "atan" ->
                IF IsZero(x) THEN x ELSE Sym(<<name, x>>)

(***************************************************************************)
(* Characters and strings.                                                 *)
(***************************************************************************)
AsciiDigits == <<"0", "1", "2", "3", "4", "5", "6", "7", "8", "9">>
\* A decimal digit (Unicode class Nd) outside ASCII: the regex crate's \d is
\* Unicode-aware, f64::from_str is not.
UnicodeDigits == {"u0663"}

IsAsciiDigit(c) == c \in {"0", "1", "2", "3", "4", "5", "6", "7", "8", "9"}
IsDigit(c) == IsAsciiDigit(c) \/ c \in UnicodeDigits
DigitValue(c) == (CHOOSE i \in 1..10 : AsciiDigits[i] = c) - 1

\* The first k strings of ss, joined.
RECURSIVE ConcatTo(_, _)
ConcatTo(ss, k) == IF k = 0 THEN <<>> ELSE ConcatTo(ss, k - 1) \o ss[k]

Concat(ss) == ConcatTo(ss, Len(ss))

\* The characters of s from position p on.
From(s, p) == SubSeq(s, p, Len(s))

IsPrefixAt(w, s, p) ==
    /\ p + Len(w) - 1 <= Len(s)
    /\ \A i \in 1..Len(w) : s[p + i - 1] = w[i]

\* A variant of StripSpaces: replacen(" ", "", 1), the first space only.
RECURSIVE StripFirstSpace(_)
StripFirstSpace(s) ==
    IF s = <<>> THEN <<>>
    ELSE IF Head(s) = " " THEN Tail(s)
    ELSE <<Head(s)>> \o StripFirstSpace(Tail(s))

\* str::replace(" ", "")
RECURSIVE StripSpaces(_)
StripSpaces(s) ==
    IF s = <<>> THEN <<>>
    ELSE IF Head(s) = " " THEN StripSpaces(Tail(s))
    ELSE <<Head(s)>> \o StripSpaces(Tail(s))

(***************************************************************************)
(* f64::from_str and f64::to_string, on the strings the lexer hands them.  *)
(***************************************************************************)
\* The number the ASCII digits of s spell, or -1 outside the exact range.
RECURSIVE DigitsAcc(_, _)
DigitsAcc(s, acc) ==
    IF s = <<>> THEN acc
    ELSE IF Head(s) = "." THEN DigitsAcc(Tail(s), acc)
    ELSE IF acc * 10 + DigitValue(Head(s)) > MaxExact THEN -1
    ELSE DigitsAcc(Tail(s), acc * 10 + DigitValue(Head(s)))

DotCount(s) == Cardinality({i \in 1..Len(s) : s[i] = "."})
FracLen(s) ==
    IF DotCount(s) = 0 THEN 0
    ELSE Len(s) - (CHOOSE i \in 1..Len(s) : s[i] = ".")

\* f64::from_str(token).is_ok(): digits with at most one point, ASCII only.
\* (from_str also takes signs, exponents, "inf" and "nan"; no match of the
\* lexer's pattern has one.)
F64ParseOk(s) ==
    /\ \A i \in 1..Len(s) : IsAsciiDigit(s[i]) \/ s[i] = "."
    /\ \E i \in 1..Len(s) : IsAsciiDigit(s[i])
    /\ DotCount(s) <= 1

\* f64::from_str(token).unwrap()
F64Parse(s) ==
    LET n == DigitsAcc(s, 0)
        d == PowAcc(10, FracLen(s), 1)
    IN  IF n < 0 \/ d = 0 THEN Sym(<<"lit">> \o s)
        ELSE Exact(1, n, d, <<"lit">> \o s)

RECURSIVE IntDigits(_)
IntDigits(n) ==
    IF n < 10 THEN <<AsciiDigits[n + 1]>>
    ELSE IntDigits(n \div 10) \o <<AsciiDigits[(n % 10) + 1]>>

RECURSIVE FracDigits(_, _, _)
FracDigits(num, d, fuel) ==
    IF num = 0 \/ fuel = 0 THEN <<>>
    ELSE <<AsciiDigits[((num * 10) \div d) + 1]>>
             \o FracDigits((num * 10) % d, d, fuel - 1)

\* f64::to_string: the shortest decimal text that parses back to the value.
F64ToString(v) ==
    CASE IsNaN(v) -> <<"N", "a", "N">>
      [] IsInf(v) -> (IF v.s = -1 THEN <<"-">> ELSE <<>>) \o <<"i", "n", "f">>
      [] IsFin(v) ->
           (IF v.s = -1 THEN <<"-">> ELSE <<>>)
               \o IntDigits(v.n \div v.d)
               \o (IF v.d = 1 THEN <<>>
                   ELSE <<".">> \o FracDigits(v.n % v.d, v.d, 17))
      [] v = PI -> <<"3", ".", "1", "4", "1", "5", "9", "2", "6", "5", "3",
                     "5", "8", "9", "7", "9", "3">>
      [] v = E -> <<"2", ".", "7", "1", "8", "2", "8", "1", "8", "2", "8",
                    "4", "5", "9", "0", "4", "5">>
      [] OTHER -> <<"0", ".">> \o v.t[1]


(***************************************************************************)
(* Token.                                                                  *)
(***************************************************************************)
Number(v) == [type |-> "Number", value |-> v, name |-> <<>>]
Operator(op) == [type |-> "Operator", value |-> One, name |-> op]
Function(func) == [type |-> "Function", value |-> One, name |-> func]
LeftParen == [type |-> "LeftParen", value |-> One, name |-> <<>>]
RightParen == [type |-> "RightParen", value |-> One, name |-> <<>>]

\* Token::precedence
precedence(tok) ==
    CASE tok.type = "Operator" ->
           (CASE tok.name \in {<<"+">>, <<"-">>} -> 1
              [] tok.name \in {<<"*">>, <<"/">>} -> 2
              [] tok.name = <<"^">> -> 3
              [] OTHER -> 0)
      [] tok.type = "Function" -> 4
      [] OTHER -> 0

\* Token::to_string
to_string(tok) ==
    CASE tok.type = "Number" -> F64ToString(tok.value)
      [] tok.type \in {"Operator", "Function"} -> tok.name
      [] tok.type = "LeftParen" -> <<"(">>
      [] tok.type = "RightParen" -> <<")">>

is_operator(c) == c \in {<<"+">>, <<"-">>, <<"*">>, <<"/">>, <<"^">>}

\* evaluate_const: Ok(value) for the two constant names, Err otherwise.
evaluate_const_ok(p_const) == p_const \in {<<"P", "I">>, <<"E">>}
evaluate_const(p_const) == IF p_const = <<"P", "I">> THEN PI ELSE E

(***************************************************************************)
(* tokenize.                                                               *)
(***************************************************************************)
\* The alternatives of the pattern after the number, in the pattern's order:
\* the regex crate takes the first alternative that matches at a position.
Alternatives ==
    << <<"+">>, <<"-">>, <<"*">>, <<"/">>, <<"^">>, <<"(">>, <<")">>,
       <<"l", "n">>, <<"l", "o", "g", "2">>, <<"e", "x", "p">>,
       <<"a", "s", "i", "n">>, <<"a", "c", "o", "s">>, <<"a", "t", "a", "n">>,
       <<"s", "i", "n">>, <<"c", "o", "s">>, <<"t", "a", "n">>,
       <<"a", "b", "s">>, <<"s", "q", "r", "t">>,
       <<"l", "o", "g", "1", "0">>, <<"P", "I">>, <<"E">> >>

\* The length of the run of digits of s at position p.
RECURSIVE DigitRun(_, _)
DigitRun(s, p) ==
    IF p <= Len(s) /\ IsDigit(s[p]) THEN 1 + DigitRun(s, p + 1) ELSE 0

\* The length of the match of \d+\.?\d* at position p (0: no match).
NumberMatchLen(s, p) ==
    LET n1 == DigitRun(s, p)
    IN  IF n1 = 0 THEN 0
        ELSE IF p + n1 <= Len(s) /\ s[p + n1] = "."
             THEN n1 + 1 + DigitRun(s, p + n1 + 1)
        ELSE n1

\* The length of the pattern's match at position p (0: no match there).
MatchLen(s, p) ==
    LET n == NumberMatchLen(s, p)
        hits == {i \in 1..Len(Alternatives) :
                   IsPrefixAt(Alternatives[i], s, p)}
    IN  IF n > 0 THEN n
        ELSE IF hits = {} THEN 0
        ELSE Len(Alternatives[CHOOSE i \in hits : \A j \in hits : i <= j])

\* The body of tokenize's loop: the tokens pushed for one match.
PushToken(tokens, token) ==
    IF F64ParseOk(token) THEN Append(tokens, Number(F64Parse(token)))
    ELSE IF token = <<"-">>
         THEN IF tokens = <<>>
                 \/ to_string(tokens[Len(tokens)]) = <<"(">>
                 \/ is_operator(to_string(tokens[Len(tokens)]))
              THEN tokens \o <<Number(Int2F(-1)), Operator(<<"*">>)>>
              ELSE Append(tokens, Operator(token))
    ELSE IF token \in {<<"+">>, <<"*">>, <<"/">>, <<"^">>}
         THEN Append(tokens, Operator(token))
    ELSE IF token = <<"(">> THEN Append(tokens, LeftParen)
    ELSE IF token = <<")">> THEN Append(tokens, RightParen)
    ELSE IF evaluate_const_ok(token)
         THEN Append(tokens, Number(evaluate_const(token)))
    ELSE Append(tokens, Function(token))

\* A variant of Scan: the pattern anchored where the last match ended, so
\* that the scan ends at the first character nothing matches.
RECURSIVE ScanAnchored(_, _, _)
ScanAnchored(s, p, tokens) ==
    IF p > Len(s) THEN tokens
    ELSE LET n == MatchLen(s, p)
         IN  IF n = 0 THEN tokens
             ELSE ScanAnchored(s, p + n,
                               PushToken(tokens, SubSeq(s, p, p + n - 1)))

\* captures_iter: the leftmost match from p on, then on from its end; a
\* character where nothing matches is passed over.
RECURSIVE Scan(_, _, _)
Scan(s, p, tokens) ==
    IF p > Len(s) THEN tokens
    ELSE LET n == MatchLen(s, p)
         IN  IF n = 0 THEN Scan(s, p + 1, tokens)
             ELSE Scan(s, p + n,
                       PushToken(tokens, SubSeq(s, p, p + n - 1)))

tokenize(s) == Scan(s, 1, <<>>)

(***************************************************************************)
(* to_rpn.                                                                 *)
(***************************************************************************)
\* matches!(token, _p_token): _p_token is an identifier pattern, which binds
\* whatever token is, so the test holds of every token.
MatchesPToken(token) == TRUE

\* A variant of PopsBefore: ties are not popped (every operator grouped
\* from the right).
PopsBeforeStrict(op, token) ==
    /\ op.type \in {"Operator", "Function"}
    /\ precedence(op) > precedence(token)

\* The test of the while loop at an Operator or Function token.
PopsBefore(op, token) ==
    /\ op.type \in {"Operator", "Function"}
    /\ \/ precedence(op) > precedence(token)
       \/ precedence(op) = precedence(token) /\ MatchesPToken(token)

\* RightParen: pop to the output until a LeftParen is popped, or no
\* operator is left.
RECURSIVE PopToParen(_, _)
PopToParen(output, operators) ==
    IF operators = <<>> THEN [output |-> output, operators |-> operators]
    ELSE LET op == operators[Len(operators)]
             rest == SubSeq(operators, 1, Len(operators) - 1)
         IN  IF op.type = "LeftParen"
             THEN [output |-> output, operators |-> rest]
             ELSE PopToParen(Append(output, op), rest)

\* Operator or Function: pop while the test holds, then push the token.
RECURSIVE PopWhile(_, _, _)
PopWhile(output, operators, token) ==
    IF operators /= <<>> /\ PopsBefore(operators[Len(operators)], token)
    THEN PopWhile(Append(output, operators[Len(operators)]),
                  SubSeq(operators, 1, Len(operators) - 1), token)
    ELSE [output |-> output, operators |-> Append(operators, token)]

\* A variant of Drain: a LeftParen left on the operator stack is discarded.
RECURSIVE DrainOperators(_, _)
DrainOperators(output, operators) ==
    IF operators = <<>> THEN output
    ELSE LET op == operators[Len(operators)]
             rest == SubSeq(operators, 1, Len(operators) - 1)
         IN  IF op.type = "LeftParen" THEN DrainOperators(output, rest)
             ELSE DrainOperators(Append(output, op), rest)

\* The last loop: what is left on the operator stack, top first.
RECURSIVE Drain(_, _)
Drain(output, operators) ==
    IF operators = <<>> THEN output
    ELSE Drain(Append(output, operators[Len(operators)]),
               SubSeq(operators, 1, Len(operators) - 1))

RECURSIVE RpnLoop(_, _, _, _)
RpnLoop(tokens, i, output, operators) ==
    IF i > Len(tokens) THEN Drain(output, operators)
    ELSE LET token == tokens[i]
             st == CASE token.type = "Number" ->
                          [output |-> Append(output, token),
                           operators |-> operators]
                     [] token.type = "LeftParen" ->
                          [output |-> output,
                           operators |-> Append(operators, LeftParen)]
                     [] token.type = "RightParen" ->
                          PopToParen(output, operators)
                     [] OTHER -> PopWhile(output, operators, token)
         IN  RpnLoop(tokens, i + 1, st.output, st.operators)

to_rpn(tokens) == RpnLoop(tokens, 1, <<>>, <<>>)

(***************************************************************************)
(* evaluate_rpn.                                                           *)
(***************************************************************************)
Ok(v) == [ok |-> TRUE, value |-> v, err |-> ""]
Err(e) == [ok |-> FALSE, value |-> One, err |-> e]

\* The messages (those of an unknown or invalid token go on with the token's
\* Debug text, which the model leaves out).
ErrOperatorB == "Invalid expression: not enough values for operator (b)"
ErrOperatorA == "Invalid expression: not enough values for operator (a)"
ErrFunction == "Invalid expression: not enough values for function"
ErrUnknownOperator == "Unknown operator"
ErrUnknownFunction == "Unknown function"
ErrInvalidToken == "Invalid token"
ErrNoResult == "Invalid expression: no result on stack"

OperatorSymbols == {<<"+">>, <<"-">>, <<"*">>, <<"/">>, <<"^">>}

\* The match on op.as_str()
ApplyOperator(op, a, b) ==
    CASE op = <<"+">> -> AddF(a, b)
      [] op = <<"-">> -> SubF(a, b)
      [] op = <<"*">> -> MulF(a, b)
      [] op = <<"/">> -> DivF(a, b)
      [] op = <<"^">> -> PowF(a, b)

\* The names of the match on func.as_str(), each with the f64 method called.
FunctionTable ==
    { << <<"s", "i", "n">>, "sin" >>, << <<"c", "o", "s">>, "cos" >>,
      << <<"t", "a", "n">>, "tan" >>, << <<"a", "s", "i", "n">>, "asin" >>,
      << <<"a", "c", "o", "s">>, "acos" >>,
      << <<"a", "t", "a", "n">>, "atan" >>, << <<"e", "x", "p">>, "exp" >>,
      << <<"l", "n">>, "ln" >>, << <<"l", "o", "g">>, "log10" >>,
      << <<"l", "o", "g", "2">>, "log2" >>, << <<"a", "b", "s">>, "abs" >>,
      << <<"s", "q", "r", "t">>, "sqrt" >>,
      << <<"l", "o", "g", "1", "0">>, "log10" >> }

FunctionNames == {e[1] : e \in FunctionTable}

ApplyFunction(func, arg) ==
    MathF((CHOOSE e \in FunctionTable : e[1] = func)[2], arg)

RECURSIVE EvalLoop(_, _, _)
EvalLoop(rpn, i, stack) ==
    IF i > Len(rpn)
    THEN IF stack = <<>> THEN Err(ErrNoResult) ELSE Ok(stack[Len(stack)])
    ELSE LET token == rpn[i]
             n == Len(stack)
         IN  CASE token.type = "Number" ->
                    EvalLoop(rpn, i + 1, Append(stack, token.value))
               [] token.type = "Operator" ->
                    IF n = 0 THEN Err(ErrOperatorB)
                    ELSE IF n = 1 THEN Err(ErrOperatorA)
                    ELSE IF token.name \notin OperatorSymbols
                         THEN Err(ErrUnknownOperator)
                    ELSE EvalLoop(rpn, i + 1,
                                  Append(SubSeq(stack, 1, n - 2),
                                         ApplyOperator(token.name,
                                                       stack[n - 1],
                                                       stack[n])))
               [] token.type = "Function" ->
                    IF n = 0 THEN Err(ErrFunction)
                    ELSE IF token.name \notin FunctionNames
                         THEN Err(ErrUnknownFunction)
                    ELSE EvalLoop(rpn, i + 1,
                                  Append(SubSeq(stack, 1, n - 1),
                                         ApplyFunction(token.name,
                                                       stack[n])))
               [] OTHER -> Err(ErrInvalidToken)

\* A variant of evaluate_rpn: a NaN or infinite result is refused.
evaluate_rpn_finite(rpn) ==
    LET r == EvalLoop(rpn, 1, <<>>)
    IN  IF r.ok /\ (IsNaN(r.value) \/ IsInf(r.value))
        THEN Err("Invalid expression: result is not finite")
        ELSE r

evaluate_rpn(rpn) == EvalLoop(rpn, 1, <<>>)

\* evaluate_expression
evaluate_expression(expression) ==
    evaluate_rpn(to_rpn(tokenize(StripSpaces(expression))))


(***************************************************************************)
(* One call of evaluate_expression, stage by stage.                        *)
(***************************************************************************)
VARIABLES expression, pc, stripped, tokens, rpn, result

vars == <<expression, pc, stripped, tokens, rpn, result>>

Pending == [ok |-> FALSE, value |-> One, err |-> "pending"]

\* The call's state on entry, for an argument drawn from inputs.
InitWith(inputs) ==
    /\ expression \in inputs
    /\ pc = "start"
    /\ stripped = <<>>
    /\ tokens = <<>>
    /\ rpn = <<>>
    /\ result = Pending

\* let expression = expression.replace(" ", "");
Strip ==
    /\ pc = "start"
    /\ stripped' = StripSpaces(expression)
    /\ pc' = "stripped"
    /\ UNCHANGED <<expression, tokens, rpn, result>>

\* let tokens = tokenize(&expression)?;    (tokenize returns no Err)
Tokenize ==
    /\ pc = "stripped"
    /\ tokens' = tokenize(stripped)
    /\ pc' = "tokenized"
    /\ UNCHANGED <<expression, stripped, rpn, result>>

\* let rpn = to_rpn(&tokens)?;             (to_rpn returns no Err)
ToRpn ==
    /\ pc = "tokenized"
    /\ rpn' = to_rpn(tokens)
    /\ pc' = "converted"
    /\ UNCHANGED <<expression, stripped, tokens, result>>

\* evaluate_rpn(&rpn)
EvaluateRpn ==
    /\ pc = "converted"
    /\ result' = evaluate_rpn(rpn)
    /\ pc' = "done"
    /\ UNCHANGED <<expression, stripped, tokens, rpn>>

Next == Strip \/ Tokenize \/ ToRpn \/ EvaluateRpn

\* The strings made of at most n of the pieces.
PiecesUpTo(pieces, n) ==
    {Concat(c) : c \in UNION {[1..k -> pieces] : k \in 0..n}}

RemoveChars(s, chars) == SelectSeq(s, LAMBDA c : c \notin chars)


(***************************************************************************)
(* C1: arithmetic by precedence, equal precedence left to right.           *)
(***************************************************************************)
\* Most binary operators in an argument of SpecArith.
MaxOps == 2

ArithLiterals == {<<"2">>, <<"3">>}
ArithOps == {"+", "-", "*", "/", "^"}

\* The expressions with exactly n binary operators, none in parentheses as
\* a whole; an operand of more than a literal may stand in parentheses.
RECURSIVE ArithExprs(_)
ArithOperands(n) ==
    LET es == ArithExprs(n)
    IN  IF n = 0 THEN es
        ELSE es \cup {<<"(">> \o e \o <<")">> : e \in es}
ArithExprs(n) ==
    IF n = 0 THEN ArithLiterals
    ELSE UNION {LET as == ArithOperands(i)
                    bs == ArithOperands(n - 1 - i)
                IN  {a \o <<op>> \o b : a \in as, b \in bs, op \in ArithOps}
                : i \in 0..(n - 1)}

ArithInputs == UNION {ArithOperands(n) : n \in 0..MaxOps}

SpecArith == InitWith(ArithInputs) /\ [][Next]_vars

\* The value by the grammar
\*   sum ::= product {(+|-) product},  product ::= power {(*|/) power},
\*   power ::= primary {^ primary},    primary ::= literal | ( sum )
\* each level folded from the left.
RefPrec(c) ==
    CASE c \in {"+", "-"} -> 1
      [] c \in {"*", "/"} -> 2
      [] c = "^" -> 3
      [] OTHER -> 0

RefApply(c, a, b) ==
    CASE c = "+" -> AddF(a, b)
      [] c = "-" -> SubF(a, b)
      [] c = "*" -> MulF(a, b)
      [] c = "/" -> DivF(a, b)
      [] c = "^" -> PowF(a, b)

RECURSIVE RefLiteralLen(_, _)
RefLiteralLen(s, p) ==
    IF p <= Len(s) /\ (IsAsciiDigit(s[p]) \/ s[p] = ".")
    THEN 1 + RefLiteralLen(s, p + 1) ELSE 0

RECURSIVE RefLevel(_, _, _)
RECURSIVE RefLoop(_, _, _, _)
RefPrimary(s, p) ==
    IF s[p] = "("
    THEN LET r == RefLevel(s, p + 1, 1)
         IN  [val |-> r.val, pos |-> r.pos + 1]
    ELSE LET n == RefLiteralLen(s, p)
         IN  [val |-> F64Parse(SubSeq(s, p, p + n - 1)), pos |-> p + n]
RefLevel(s, p, lvl) ==
    IF lvl > 3 THEN RefPrimary(s, p)
    ELSE LET first == RefLevel(s, p, lvl + 1)
         IN  RefLoop(s, first.val, first.pos, lvl)
RefLoop(s, acc, p, lvl) ==
    IF p <= Len(s) /\ RefPrec(s[p]) = lvl
    THEN LET rhs == RefLevel(s, p + 1, lvl + 1)
         IN  RefLoop(s, RefApply(s[p], acc, rhs.val), rhs.pos, lvl)
    ELSE [val |-> acc, pos |-> p]

RefValue(s) == RefLevel(s, 1, 1).val

\* C1: for every expression of number literals, binary operators and
\* balanced parentheses, evaluate_expression returns the value by standard
\* precedence (^ above * and /, these above + and -), operators of equal
\* precedence grouped left to right.
C1_ArithByPrecedence ==
    pc = "done" => result = Ok(RefValue(expression))

\* 2-3-2 is (2-3)-2 = -3, and 2+3*3 is 2+(3*3) = 11.
C1_Witness ==
    /\ pc = "done"
    /\ \/ expression = <<"2", "-", "3", "-", "2">> /\ result = Ok(Int2F(-3))
       \/ expression = <<"2", "+", "3", "*", "3">> /\ result = Ok(Int2F(11))


(***************************************************************************)
(* C2: a '-' after an operator negates the operand that follows it.        *)
(***************************************************************************)
NegLiterals == {<<"1">>, <<"2">>, <<"3">>, <<"4">>, <<"5">>}

\* "a op -b", and the expressions of the tests of unary minus.
NegInputs ==
    {a \o <<op, "-">> \o b : a \in NegLiterals, b \in NegLiterals,
                             op \in ArithOps}
        \cup {<<"(", "(", "2", "+", "3", ")", "*", "4", ")", "^", "-", "2">>,
              <<"-", "1", "*", "1", "*", "-", "(", "2", "*", "3", ")">>,
              <<"-", "3", "-", "-", "3">>,
              <<"-", "(", "-", "3", "-", "-", "2", ")">>}

SpecNeg == InitWith(NegInputs) /\ [][Next]_vars

\* C2: for every binary operator op and operands a and b,
\* evaluate_expression("a op -b") is a op (-b); "((2 + 3) * 4)^-2" is
\* 20^(-2) = 0.0025.
C2_UnaryMinusBindsOperand ==
    pc = "done" =>
        /\ \A a \in NegLiterals, b \in NegLiterals, op \in ArithOps :
             expression = a \o <<op, "-">> \o b
                 => result = Ok(RefApply(op, F64Parse(a), Neg(F64Parse(b))))
        /\ expression = <<"(", "(", "2", "+", "3", ")", "*", "4", ")",
                          "^", "-", "2">>
             => result = Ok(Fin(1, 1, 400))

(***************************************************************************)
(* C3: the documented functions.                                           *)
(***************************************************************************)
\* The documented names, each with the function it stands for.
DocumentedFunctions ==
    { << <<"s", "i", "n">>, "sin" >>, << <<"c", "o", "s">>, "cos" >>,
      << <<"t", "a", "n">>, "tan" >>, << <<"a", "s", "i", "n">>, "asin" >>,
      << <<"a", "c", "o", "s">>, "acos" >>,
      << <<"a", "t", "a", "n">>, "atan" >>, << <<"e", "x", "p">>, "exp" >>,
      << <<"l", "n">>, "ln" >>, << <<"l", "o", "g">>, "log10" >>,
      << <<"l", "o", "g", "2">>, "log2" >>,
      << <<"l", "o", "g", "1", "0">>, "log10" >>,
      << <<"a", "b", "s">>, "abs" >>, << <<"s", "q", "r", "t">>, "sqrt" >> }

FuncArgs ==
    {<<"0">>, <<"1">>, <<"2">>, <<"4">>, <<"8">>, <<"1", "0">>,
     <<"1", "0", "0">>, <<"0", ".", "5">>}

FuncInputs ==
    {f[1] \o <<"(">> \o x \o <<")">> : f \in DocumentedFunctions,
                                       x \in FuncArgs}

SpecFunc == InitWith(FuncInputs) /\ [][Next]_vars

\* C3: for each documented name f, tokenizing "f(x)" yields a Function(f)
\* token first, and evaluate_expression("f(x)") is f applied to x, log being
\* the base-10 logarithm.
C3_DocumentedFunctions ==
    \A f \in DocumentedFunctions, x \in FuncArgs :
        expression = f[1] \o <<"(">> \o x \o <<")">> =>
            /\ pc \in {"tokenized", "converted", "done"}
                 => tokens /= <<>> /\ tokens[1] = Function(f[1])
            /\ pc = "done" => result = Ok(MathF(f[2], F64Parse(x)))

(***************************************************************************)
(* C4: an unmatched '(' is an error.                                       *)
(***************************************************************************)
\* Most pieces in an argument of SpecParen.
MaxParenLen == 4

ParenPieces ==
    {<<"(">>, <<")">>, <<"2">>, <<"+">>, <<"-">>, <<"s", "i", "n">>, <<"w">>}

SpecParen == InitWith(PiecesUpTo(ParenPieces, MaxParenLen)) /\ [][Next]_vars

\* The number of '(' of s still open after its first k characters, a ')'
\* closing the last one open.
RECURSIVE OpenParens(_, _)
OpenParens(s, k) ==
    IF k = 0 THEN 0
    ELSE LET before == OpenParens(s, k - 1)
         IN  CASE s[k] = "(" -> before + 1
               [] s[k] = ")" /\ before > 0 -> before - 1
               [] OTHER -> before

HasUnmatchedLeftParen(s) == OpenParens(s, Len(s)) > 0

\* C4: every expression in which a '(' has no matching ')' makes
\* evaluate_expression return an error, whatever else it contains.
C4_UnmatchedParenFails ==
    pc = "done" /\ HasUnmatchedLeftParen(expression) => ~result.ok

\* "(2+2": the sum is computed, then the '(' left in the RPN is refused.
C4_Witness ==
    /\ pc = "done"
    /\ expression = <<"(", "2", "+", "2">>
    /\ result = Err(ErrInvalidToken)


(***************************************************************************)
(* C5: what is removed before lexing.                                      *)
(***************************************************************************)
\* Most pieces in an argument of SpecSpace.
MaxSpaceLen == 4

Whitespace == {" ", "\t", "\n"}

SpacePieces ==
    {<<"1">>, <<"2">>, <<"+">>, <<"(">>, <<")">>, <<" ">>, <<"\t">>, <<"\n">>}

SpecSpace == InitWith(PiecesUpTo(SpacePieces, MaxSpaceLen)) /\ [][Next]_vars

\* s is digits with only characters of chars between and around them.
DigitsApart(s, chars) ==
    /\ \A i \in 1..Len(s) : IsAsciiDigit(s[i]) \/ s[i] \in chars
    /\ \E i \in 1..Len(s) : IsAsciiDigit(s[i])

\* C5 as claimed: for every input s, evaluate_expression(s) is
\* evaluate_expression of s with all whitespace (space, tab, newline)
\* deleted, so that digits separated only by whitespace form one number.
C5_WhitespaceRemoved ==
    pc = "done" =>
        /\ result = evaluate_expression(RemoveChars(expression, Whitespace))
        /\ DigitsApart(expression, Whitespace)
             => tokens = <<Number(F64Parse(RemoveChars(expression,
                                                       Whitespace)))>>

\* C5 as amended: the space character, and only it, is removed before
\* lexing; evaluate_expression(s) is evaluate_expression of s with all
\* spaces deleted, and digits separated only by spaces form one number.
C5_SpacesRemoved ==
    /\ pc /= "start" => stripped = RemoveChars(expression, {" "})
    /\ pc = "done" =>
        /\ result = evaluate_expression(RemoveChars(expression, {" "}))
        /\ DigitsApart(expression, {" "})
             => tokens = <<Number(F64Parse(RemoveChars(expression, {" "})))>>

\* "1  2" is the number 12.
C5_Witness ==
    /\ pc = "done"
    /\ expression = <<"1", " ", " ", "2">>
    /\ tokens = <<Number(Int2F(12))>>
    /\ result = Ok(Int2F(12))

(***************************************************************************)
(* C6: the case of the letters of a name.                                  *)
(***************************************************************************)
\* Spellings of a name, each with the spelling the lexer's pattern has.
CaseSpellings ==
    { << <<"S", "i", "n">>, <<"s", "i", "n">> >>,
      << <<"S", "I", "N">>, <<"s", "i", "n">> >>,
      << <<"s", "i", "n">>, <<"s", "i", "n">> >>,
      << <<"C", "O", "S">>, <<"c", "o", "s">> >>,
      << <<"C", "o", "s">>, <<"c", "o", "s">> >>,
      << <<"c", "o", "s">>, <<"c", "o", "s">> >>,
      << <<"e">>, <<"E">> >>, << <<"E">>, <<"E">> >>,
      << <<"p", "i">>, <<"P", "I">> >>, << <<"P", "i">>, <<"P", "I">> >>,
      << <<"P", "I">>, <<"P", "I">> >> }

CaseTails ==
    {<<>>, <<"+", "1">>, <<"*", "2">>, <<"^", "2">>,
     <<"(", "0", ")">>, <<"(", "1", ")">>, <<"(", "2", ")">>}

SpecCase ==
    InitWith({sp[1] \o tail : sp \in CaseSpellings, tail \in CaseTails})
        /\ [][Next]_vars

\* C6: replacing a function or constant name by a differently-cased
\* spelling ("Sin" for "sin", "COS" for "cos", "e" for "E") gives the same
\* token stream and the same result of evaluate_expression.
C6_CaseInsensitiveNames ==
    \A sp \in CaseSpellings, tail \in CaseTails :
        expression = sp[1] \o tail =>
            /\ pc \in {"tokenized", "converted", "done"}
                 => tokens = tokenize(sp[2] \o tail)
            /\ pc = "done" => result = evaluate_expression(sp[2] \o tail)

(***************************************************************************)
(* C7: pow(a, b).                                                          *)
(***************************************************************************)
PowNames == {<<"p", "o", "w">>, <<"P", "O", "W">>}
PowArgs ==
    {<<"2">>, <<"3">>, <<"-", "2">>, <<"-", "3">>, <<"0", ".", "5">>}

PowCall(name, a, sep, b) == name \o <<"(">> \o a \o sep \o b \o <<")">>

SpecPow ==
    InitWith({PowCall(name, a, sep, b) :
                name \in PowNames, a \in PowArgs, b \in PowArgs,
                sep \in {<<",">>, <<",", " ">>}})
        /\ [][Next]_vars

\* C7: for all operands a and b, negative ones too,
\* evaluate_expression("pow(a, b)") is evaluate_expression("(a)^(b)"), a
\* raised to the power b; POW is the same.
C7_PowIsPower ==
    pc = "done" =>
        \A name \in PowNames, a \in PowArgs, b \in PowArgs,
           sep \in {<<",">>, <<",", " ">>} :
            expression = PowCall(name, a, sep, b) =>
                result = evaluate_expression(
                             <<"(">> \o a \o <<")", "^", "(">> \o b \o <<")">>)


(***************************************************************************)
(* C8: text the pattern does not match.                                    *)
(***************************************************************************)
\* Most pieces in an argument of SpecJunk.
MaxJunkLen == 5

JunkPieces == {<<"w">>, <<"l">>, <<"n">>, <<"(">>, <<")">>, <<"2">>}

SpecJunk == InitWith(PiecesUpTo(JunkPieces, MaxJunkLen)) /\ [][Next]_vars

\* No substring of s is a match of the pattern.
NoMatchIn(s) ==
    \A i \in 1..Len(s) :
        /\ ~IsDigit(s[i])
        /\ \A k \in 1..Len(Alternatives) : ~IsPrefixAt(Alternatives[k], s, i)

\* C8: unmatched text gives no token and no error: an unrecognised
\* identifier in front of a parenthesised argument is dropped ("wxyz(x)" is
\* "(x)"), and an input with no match at all gives the empty token stream,
\* on which evaluate_expression fails with the NoResult error.
C8_UnmatchedTextDropped ==
    pc = "done" =>
        /\ NoMatchIn(expression)
             => tokens = <<>> /\ result = Err(ErrNoResult)
        /\ \A j \in 1..Len(expression) :
             j < Len(expression) /\ expression[j + 1] = "("
             /\ NoMatchIn(SubSeq(expression, 1, j))
                 => /\ tokens = tokenize(From(expression, j + 1))
                    /\ result = evaluate_expression(From(expression, j + 1))

\* "wl(2)" is 2, and "lwn" has no token.
C8_Witness ==
    /\ pc = "done"
    /\ \/ expression = <<"w", "l", "(", "2", ")">> /\ result = Ok(Int2F(2))
       \/ expression = <<"l", "w", "n">> /\ result = Err(ErrNoResult)

(***************************************************************************)
(* C9: the operands' values cause no error.                                *)
(***************************************************************************)
\* Most pieces in an argument of SpecDomain.
MaxDomainLen == 4

DomainPieces ==
    {<<"0">>, <<"2">>, <<"/">>, <<"-">>, <<")">>, <<"s", "q", "r", "t", "(">>,
     <<"l", "n", "(">>, <<"a", "s", "i", "n", "(">>}

SpecDomain ==
    InitWith(PiecesUpTo(DomainPieces, MaxDomainLen)) /\ [][Next]_vars

\* The tokens with every number's value replaced by 1: their kinds and order.
KindsOf(toks) ==
    [i \in 1..Len(toks) |->
        IF toks[i].type = "Number" THEN Number(One) ELSE toks[i]]

Outcome(r) == <<r.ok, r.err>>

\* C9: whether evaluate_expression returns Ok or Err, and which error,
\* depends on the kinds and order of the tokens and not on the numbers'
\* values; division by zero and out-of-domain arguments ("0 / 0", sqrt or ln
\* of a negative number, asin(2)) return Ok with a NaN or infinite value.
C9_ValuesCauseNoError ==
    pc = "done" =>
        /\ Outcome(result) = Outcome(evaluate_rpn(to_rpn(KindsOf(tokens))))
        /\ expression = <<"0", "/", "0">> => result = Ok(NaN)
        /\ expression = <<"2", "/", "0">> => result = Ok(Inf(1))
        /\ expression = <<"s", "q", "r", "t", "(", "-", "2", ")">>
             => result = Ok(NaN)
        /\ expression = <<"l", "n", "(", "-", "2", ")">> => result = Ok(NaN)
        /\ expression = <<"a", "s", "i", "n", "(", "2", ")">>
             => result = Ok(NaN)

\* Each of the claim's examples is evaluated, to Ok.
C9_Witness ==
    /\ pc = "done"
    /\ expression \in {<<"0", "/", "0">>,
                       <<"s", "q", "r", "t", "(", "-", "2", ")">>,
                       <<"l", "n", "(", "-", "2", ")">>,
                       <<"a", "s", "i", "n", "(", "2", ")">>}
    /\ result = Ok(NaN)

(***************************************************************************)
(* C10: the symbols and names the tokens carry.                            *)
(***************************************************************************)
\* Most pieces in an argument of SpecLex.
MaxLexLen == 2

LexPieces ==
    {Alternatives[i] : i \in 1..Len(Alternatives)}
        \cup {<<"l", "o", "g">>, <<"p", "o", "w">>, <<"1">>, <<".">>,
              <<"u0663">>, <<"w">>, <<"a">>, <<"l">>, <<"o">>, <<" ">>}

SpecLex == InitWith(PiecesUpTo(LexPieces, MaxLexLen)) /\ [][Next]_vars

\* C10: for every input, every Operator token carries one of + - * / ^ and
\* every Function token one of the recognised function names, so that
\* evaluate_expression never fails with "Unknown operator" or "Unknown
\* function".
C10_TokensInClosedSets ==
    /\ \A i \in 1..Len(tokens) :
         /\ tokens[i].type = "Operator"
              => tokens[i].name \in {<<"+">>, <<"-">>, <<"*">>, <<"/">>, <<"^">>}
         /\ tokens[i].type = "Function"
              => tokens[i].name \in {f[1] : f \in DocumentedFunctions}
    /\ result.err \notin {ErrUnknownOperator, ErrUnknownFunction}

Spec == SpecArith

====
